---- MODULE Spec2Model ----
(***************************************************************************)
(* Model of src/src/7tutorial.py: an undirected graph built once from an   *)
(* edge list (create_graph), and four read-only queries over it:           *)
(* get_degree, dfs_traversal, bfs_traversal and find_shortest_path.        *)
(*                                                                         *)
(* The graph store is networkx's nx.Graph: a dict of adjacency dicts.      *)
(* Python dicts iterate in insertion order, so a node's neighbours are     *)
(* modelled as the sequence of its neighbours in the order their edges     *)
(* were first added.                                                       *)
(***************************************************************************)
EXTENDS Integers, Sequences, FiniteSets, TLC

\* ------------------------------------------------------------------ bounds
\* Node identifiers of the edge lists are 0..MaxNode.
MaxNode == 3
\* Edge lists hold at most MaxEdges pairs.
MaxEdges == 3

NodeIds == 0..MaxNode
\* Arguments of the queries: every node identifier, and one that no edge
\* list can hold.
QueryIds == 0..(MaxNode + 1)

\* Python's None (pred[source], succ[target] in the path search).
None == -1

VARIABLES
    edges,            \* the edge list handed to create_graph
    G,                \* the graph: node -> sequence of neighbours
    pc,               \* "idle", "dfs", "bfs" or "done"
    op,               \* the call in progress or just completed
    visited,          \* local of dfs_traversal / bfs_traversal
    traversal_order,  \* local of dfs_traversal / bfs_traversal
    queue,            \* local of bfs_traversal (the deque)
    stack,            \* call stack of the nested dfs(): frames [node, i]
    result            \* what the completed call returned or raised

vars == <<edges, G, pc, op, visited, traversal_order, queue, stack, result>>

\* ----------------------------------------------------------------- helpers
Range(s) == {s[i] : i \in 1..Len(s)}

RECURSIVE Reverse(_)
Reverse(s) == IF s = <<>> THEN <<>> ELSE Append(Reverse(Tail(s)), Head(s))

\* The endpoints of an edge list, in the order they occur.
RECURSIVE Endpoints(_)
Endpoints(es) ==
    IF es = <<>> THEN <<>> ELSE <<es[1][1], es[1][2]>> \o Endpoints(Tail(es))

\* Node identifiers are opaque dictionary keys: the code only hashes them and
\* tests them for equality.  Edge lists are therefore enumerated up to a
\* renaming of the nodes: the k-th distinct node to occur is named k-1.
\* Repeated pairs, reversed pairs and self-loops all occur.
NextEdges(es) ==
    LET k == Cardinality(Range(Endpoints(es)))
        Upto(m) == 0..(IF m < MaxNode THEN m ELSE MaxNode)
    IN {Append(es, <<u, v>>) :
            u \in Upto(k), v \in Upto(k + 1)} \ 
       {Append(es, <<u, k + 1>>) : u \in Upto(k - 1)}

RECURSIVE EdgeListsOfLen(_)
EdgeListsOfLen(n) ==
    IF n = 0 THEN {<<>>}
    ELSE UNION {NextEdges(es) : es \in EdgeListsOfLen(n - 1)}

EdgeLists == UNION {EdgeListsOfLen(n) : n \in 0..MaxEdges}

\* ------------------------------------------------------------- graph store
EmptyGraph == [n \in {} |-> <<>>]

NodesOf(g) == DOMAIN g

\* An edge is the unordered pair of a node and one of its neighbours (a
\* self-loop is the singleton {n}).
EdgesOf(g) == UNION {{{u, v} : v \in Range(g[u])} : u \in DOMAIN g}

\* AddEdge with has_node mistaken for has_edge: a pair whose endpoints are
\* both nodes already is taken to be there.
AddEdgeSkipsKnownNodes(g, u, v) ==
    IF u \in DOMAIN g /\ v \in DOMAIN g THEN g
    ELSE LET g1 == IF u \in DOMAIN g THEN g ELSE g @@ (u :> <<>>)
             g2 == IF v \in DOMAIN g1 THEN g1 ELSE g1 @@ (v :> <<>>)
             g3 == [g2 EXCEPT ![u] = IF v \in Range(@) THEN @ ELSE Append(@, v)]
         IN [g3 EXCEPT ![v] = IF u \in Range(@) THEN @ ELSE Append(@, u)]

\* nx.Graph.add_edge as add_edges_from applies it to one pair: both endpoints
\* become nodes, and each is entered in the other's adjacency dict (an entry
\* that is already there keeps its place).
AddEdge(g, u, v) ==
    LET g1 == IF u \in DOMAIN g THEN g ELSE g @@ (u :> <<>>)
        g2 == IF v \in DOMAIN g1 THEN g1 ELSE g1 @@ (v :> <<>>)
        g3 == [g2 EXCEPT ![u] = IF v \in Range(@) THEN @ ELSE Append(@, v)]
    IN [g3 EXCEPT ![v] = IF u \in Range(@) THEN @ ELSE Append(@, u)]

RECURSIVE AddEdgesFrom(_, _)
AddEdgesFrom(g, es) ==
    IF es = <<>> THEN g
    ELSE AddEdgesFrom(AddEdge(g, es[1][1], es[1][2]), Tail(es))

create_graph(es) == AddEdgesFrom(EmptyGraph, es)

\* Degree as len(list(G.neighbors(node))): a self-loop counted once.
DegreeNeighborCount(g, n) == Len(g[n])

\* G.degree[node]: the number of neighbours, a self-loop counted twice.
Degree(g, n) == Len(g[n]) + (IF n \in Range(g[n]) THEN 1 ELSE 0)

\* ------------------------------------------------------------ path search
\* nx.shortest_path(G, source, target) with the default method is
\* bidirectional_shortest_path: breadth-first levels grown alternately from
\* the source and from the target, the smaller fringe first.

\* The (v, w) pairs the two nested loops go through: each v of the level, and
\* for each v its neighbours w in order.
RECURSIVE LevelPairs(_, _)
LevelPairs(g, level) ==
    IF level = <<>> THEN <<>>
    ELSE [i \in 1..Len(g[Head(level)]) |-> <<Head(level), g[Head(level)][i]>>]
         \o LevelPairs(g, Tail(level))

\* One level of the search: mine is the map being grown (pred going
\* forward, succ going backward), other the opposite map.  Stops at the
\* first w the other side has reached.
RECURSIVE ExpandLevel(_, _, _, _)
ExpandLevel(st, other, pairs, k) ==
    IF k > Len(pairs) THEN st
    ELSE LET v == pairs[k][1]
             w == pairs[k][2]
             st1 == IF w \notin DOMAIN st.mine
                    THEN [st EXCEPT !.fringe = Append(@, w), !.mine = @ @@ (w :> v)]
                    ELSE st
         IN IF w \in DOMAIN other THEN [st1 EXCEPT !.meet = w]
            ELSE ExpandLevel(st1, other, pairs, k + 1)

RECURSIVE BidirectionalSearch(_, _, _, _, _)
BidirectionalSearch(g, pred, succ, forward_fringe, reverse_fringe) ==
    IF forward_fringe = <<>> \/ reverse_fringe = <<>>
    THEN [kind |-> "NetworkXNoPath"]
    ELSE IF Len(forward_fringe) <= Len(reverse_fringe)
    THEN LET st == ExpandLevel([mine |-> pred, fringe |-> <<>>, meet |-> None],
                               succ, LevelPairs(g, forward_fringe), 1)
         IN IF st.meet # None
            THEN [kind |-> "found", pred |-> st.mine, succ |-> succ, w |-> st.meet]
            ELSE BidirectionalSearch(g, st.mine, succ, st.fringe, reverse_fringe)
    ELSE LET st == ExpandLevel([mine |-> succ, fringe |-> <<>>, meet |-> None],
                               pred, LevelPairs(g, reverse_fringe), 1)
         IN IF st.meet # None
            THEN [kind |-> "found", pred |-> pred, succ |-> st.mine, w |-> st.meet]
            ELSE BidirectionalSearch(g, pred, st.mine, forward_fringe, st.fringe)

\* w, map[w], map[map[w]], ... up to the entry that is None.
RECURSIVE Chain(_, _)
Chain(map, w) == IF w = None THEN <<>> ELSE <<w>> \o Chain(map, map[w])

\* The messages NodeNotFound can carry, as the set of nodes each names.
\* networkx 2.x raises one message naming source and target; networkx 3.x
\* names the source when it is missing, otherwise the target.
NodeNotFoundNames(g, source, target) ==
    {{source, target}, IF source \notin DOMAIN g THEN {source} ELSE {target}}

\* The outcomes of nx.shortest_path(G, source=source, target=target).
ShortestPath(g, source, target) ==
    IF source \notin DOMAIN g \/ target \notin DOMAIN g
    THEN {[kind |-> "NodeNotFound", names |-> ns] :
              ns \in NodeNotFoundNames(g, source, target)}
    ELSE IF source = target THEN {[kind |-> "path", path |-> <<source>>]}
    ELSE LET r == BidirectionalSearch(g, (source :> None), (target :> None),
                                      <<source>>, <<target>>)
         IN IF r.kind = "found"
            THEN {[kind |-> "path",
                   path |-> Reverse(Chain(r.pred, r.w)) \o Chain(r.succ, r.succ[r.w])]}
            ELSE {[kind |-> "NetworkXNoPath"]}

\* ----------------------------------------------------------------- queries
NoResult == [kind |-> "none"]
Return(v) == [kind |-> "return", val |-> v]
\* An exception that reaches the caller; names: the nodes its message names.
Raise(exc, ns) == [kind |-> exc, names |-> ns]

\* get_degree without its membership test, as G.degree(node) answers: nothing
\* is raised for a node that is not there.
get_degree_unchecked(g, node) ==
    IF node \in DOMAIN g THEN Return(Degree(g, node)) ELSE Return(0)

\* get_degree(G, node)
get_degree(g, node) ==
    IF node \in DOMAIN g
    THEN Return(Degree(g, node))
    ELSE Raise("ValueError", {node})

\* find_shortest_path with source and target handed over the wrong way round.
find_shortest_path_swapped(g, source, target) ==
    {CASE r.kind = "path" -> Return(r.path)
       [] r.kind = "NetworkXNoPath" -> Return(<<>>)
       [] r.kind = "NodeNotFound" -> Raise("ValueError", r.names) :
     r \in ShortestPath(g, target, source)}

\* find_shortest_path without its except clause for NetworkXNoPath.
find_shortest_path_no_except(g, source, target) ==
    {CASE r.kind = "path" -> Return(r.path)
       [] r.kind = "NetworkXNoPath" -> Raise("NetworkXNoPath", {source, target})
       [] r.kind = "NodeNotFound" -> Raise("ValueError", r.names) :
     r \in ShortestPath(g, source, target)}

\* find_shortest_path(G, source, target): the set of its possible outcomes.
find_shortest_path(g, source, target) ==
    {CASE r.kind = "path" -> Return(r.path)
       [] r.kind = "NetworkXNoPath" -> Return(<<>>)
       [] r.kind = "NodeNotFound" -> Raise("ValueError", r.names) :
     r \in ShortestPath(g, source, target)}

\* EnqueueUnvisited going through the neighbours last to first.
EnqueueUnvisitedReversed(q, nbrs, vis) ==
    q \o Reverse(SelectSeq(nbrs, LAMBDA n : n \notin vis))

\* EnqueueUnvisited with queue.appendleft(neighbor).
EnqueueUnvisitedFront(q, nbrs, vis) ==
    Reverse(SelectSeq(nbrs, LAMBDA n : n \notin vis)) \o q

\* for neighbor in G.neighbors(node): if neighbor not in visited:
\*     queue.append(neighbor)
EnqueueUnvisited(q, nbrs, vis) == q \o SelectSeq(nbrs, LAMBDA n : n \notin vis)

\* The caller (test_functions) makes its calls one after the other: the next
\* one starts when the last has handed back its result.
CanCall == pc = "idle"

Init ==
    /\ edges \in EdgeLists
    /\ G = create_graph(edges)
    /\ pc = "idle"
    /\ op = [name |-> "none", args |-> <<>>]
    /\ visited = {}
    /\ traversal_order = <<>>
    /\ queue = <<>>
    /\ stack = <<>>
    /\ result = NoResult

\* GetDegree on a store that enters the node it is asked about.
GetDegreeAddsNode ==
    \E node \in QueryIds :
        /\ CanCall
        /\ op' = [name |-> "get_degree", args |-> <<node>>]
        /\ result' = get_degree(G, node)
        /\ pc' = "done"
        /\ visited' = {}
        /\ traversal_order' = <<>>
        /\ queue' = <<>>
        /\ stack' = <<>>
        /\ G' = IF node \in DOMAIN G THEN G ELSE G @@ (node :> <<>>)
        /\ UNCHANGED edges

GetDegree ==
    \E node \in QueryIds :
        /\ CanCall
        /\ op' = [name |-> "get_degree", args |-> <<node>>]
        /\ result' = get_degree(G, node)
        /\ pc' = "done"
        /\ visited' = {}
        /\ traversal_order' = <<>>
        /\ queue' = <<>>
        /\ stack' = <<>>
        /\ UNCHANGED <<edges, G>>

FindShortestPath ==
    \E source \in QueryIds, target \in QueryIds :
        /\ CanCall
        /\ op' = [name |-> "find_shortest_path", args |-> <<source, target>>]
        /\ result' \in find_shortest_path(G, source, target)
        /\ pc' = "done"
        /\ visited' = {}
        /\ traversal_order' = <<>>
        /\ queue' = <<>>
        /\ stack' = <<>>
        /\ UNCHANGED <<edges, G>>

\* dfs_traversal(G, start) up to the entry of dfs(start): the node is marked
\* and appended, then G.neighbors(start) is asked for (it raises NetworkXError
\* when start is no node of G).
DfsStart ==
    \E start \in QueryIds :
        /\ CanCall
        /\ op' = [name |-> "dfs_traversal", args |-> <<start>>]
        /\ visited' = {start}
        /\ traversal_order' = <<start>>
        /\ queue' = <<>>
        /\ IF start \in DOMAIN G
           THEN /\ stack' = <<[node |-> start, i |-> 1]>>
                /\ pc' = "dfs"
                /\ result' = NoResult
           ELSE /\ stack' = <<>>
                /\ pc' = "done"
                /\ result' = Raise("NetworkXError", {start})
        /\ UNCHANGED <<edges, G>>

\* The innermost running dfs() and the neighbour its loop is at.
Top == stack[Len(stack)]
TopNeighbors == G[Top.node]

\* The loop of dfs() finds an unvisited neighbour and calls dfs(neighbor).
DfsVisit ==
    /\ pc = "dfs"
    /\ Top.i <= Len(TopNeighbors)
    /\ LET neighbor == TopNeighbors[Top.i]
       IN /\ neighbor \notin visited
          /\ visited' = visited \cup {neighbor}
          /\ traversal_order' = Append(traversal_order, neighbor)
          /\ stack' = Append([stack EXCEPT ![Len(stack)].i = @ + 1],
                             [node |-> neighbor, i |-> 1])
    /\ UNCHANGED <<edges, G, pc, op, queue, result>>

\* DfsSkip with the loop left at the first visited neighbour.
DfsSkipBreaks ==
    /\ pc = "dfs"
    /\ Top.i <= Len(TopNeighbors)
    /\ TopNeighbors[Top.i] \in visited
    /\ stack' = [stack EXCEPT ![Len(stack)].i = Len(TopNeighbors) + 1]
    /\ UNCHANGED <<edges, G, pc, op, visited, traversal_order, queue, result>>

\* The loop of dfs() passes over a visited neighbour.
DfsSkip ==
    /\ pc = "dfs"
    /\ Top.i <= Len(TopNeighbors)
    /\ TopNeighbors[Top.i] \in visited
    /\ stack' = [stack EXCEPT ![Len(stack)].i = @ + 1]
    /\ UNCHANGED <<edges, G, pc, op, visited, traversal_order, queue, result>>

\* The loop of dfs() is over: dfs() returns, and with the outermost one
\* dfs_traversal returns traversal_order.
DfsReturn ==
    /\ pc = "dfs"
    /\ Top.i > Len(TopNeighbors)
    /\ stack' = SubSeq(stack, 1, Len(stack) - 1)
    /\ IF Len(stack) = 1
       THEN pc' = "done" /\ result' = Return(traversal_order)
       ELSE UNCHANGED <<pc, result>>
    /\ UNCHANGED <<edges, G, op, visited, traversal_order, queue>>

BfsStart ==
    \E start \in QueryIds :
        /\ CanCall
        /\ op' = [name |-> "bfs_traversal", args |-> <<start>>]
        /\ visited' = {}
        /\ traversal_order' = <<>>
        /\ queue' = <<start>>
        /\ stack' = <<>>
        /\ pc' = "bfs"
        /\ result' = NoResult
        /\ UNCHANGED <<edges, G>>

\* One turn of the while loop with an unvisited node at the front.
BfsVisit ==
    /\ pc = "bfs"
    /\ queue # <<>>
    /\ LET node == Head(queue)
       IN /\ node \notin visited
          /\ visited' = visited \cup {node}
          /\ traversal_order' = Append(traversal_order, node)
          /\ IF node \in DOMAIN G
             THEN /\ queue' = EnqueueUnvisited(Tail(queue), G[node], visited')
                  /\ UNCHANGED <<pc, result>>
             ELSE /\ queue' = Tail(queue)
                  /\ pc' = "done"
                  /\ result' = Raise("NetworkXError", {node})
    /\ UNCHANGED <<edges, G, op, stack>>

\* BfsSkip reading queue[0] and leaving it there.
BfsSkipPeeks ==
    /\ pc = "bfs"
    /\ queue # <<>>
    /\ Head(queue) \in visited
    /\ queue' = queue
    /\ UNCHANGED <<edges, G, pc, op, visited, traversal_order, stack, result>>

\* One turn of the while loop with an already visited node at the front.
BfsSkip ==
    /\ pc = "bfs"
    /\ queue # <<>>
    /\ Head(queue) \in visited
    /\ queue' = Tail(queue)
    /\ UNCHANGED <<edges, G, pc, op, visited, traversal_order, stack, result>>

\* The queue is empty: bfs_traversal returns traversal_order.
BfsReturn ==
    /\ pc = "bfs"
    /\ queue = <<>>
    /\ pc' = "done"
    /\ result' = Return(traversal_order)
    /\ UNCHANGED <<edges, G, op, visited, traversal_order, queue, stack>>

\* The caller has taken the result (or the error) of the completed call: the
\* locals of that call are gone, and the caller is free to call again.
CallerContinues ==
    /\ pc = "done"
    /\ pc' = "idle"
    /\ op' = [name |-> "none", args |-> <<>>]
    /\ result' = NoResult
    /\ visited' = {}
    /\ traversal_order' = <<>>
    /\ queue' = <<>>
    /\ stack' = <<>>
    /\ UNCHANGED <<edges, G>>

Next ==
    \/ GetDegree
    \/ FindShortestPath
    \/ DfsStart
    \/ DfsVisit
    \/ DfsSkip
    \/ DfsReturn
    \/ BfsStart
    \/ BfsVisit
    \/ BfsSkip
    \/ BfsReturn
    \/ CallerContinues

Spec == Init /\ [][Next]_vars

\* A traversal that has started keeps running: the interpreter goes on with
\* the loop (or the recursion) until the function returns or raises.
TraversalStep ==
    DfsVisit \/ DfsSkip \/ DfsReturn \/ BfsVisit \/ BfsSkip \/ BfsReturn

FairSpec == Spec /\ WF_vars(TraversalStep)

\* --------------------------------------------------- reference definitions
\* The nodes reachable from the nodes of S along edges of g.
RECURSIVE ReachFrom(_, _)
ReachFrom(g, S) ==
    LET S2 == S \cup UNION {Range(g[n]) : n \in S \cap DOMAIN g}
    IN IF S2 = S THEN S ELSE ReachFrom(g, S2)

Reach(g, s) == ReachFrom(g, {s})

\* The least number of edges on a walk from a node of S to t, plus d; more
\* than the number of nodes when there is no such walk.
RECURSIVE DistFrom(_, _, _, _)
DistFrom(g, S, t, d) ==
    LET S2 == S \cup UNION {Range(g[n]) : n \in S \cap DOMAIN g}
    IN IF t \in S THEN d
       ELSE IF S2 = S THEN Cardinality(DOMAIN g) + 1
       ELSE DistFrom(g, S2, t, d + 1)

Dist(g, s, t) == DistFrom(g, {s}, t, 0)

NoRepeats(seq) == \A i, j \in 1..Len(seq) : i # j => seq[i] # seq[j]

\* A breadth-first search that marks a node when it enqueues it and never
\* enqueues a marked node.
RECURSIVE StrictLoop(_, _, _, _)
StrictLoop(g, q, marked, out) ==
    IF q = <<>> THEN out
    ELSE LET fresh == SelectSeq(g[Head(q)], LAMBDA n : n \notin marked)
         IN StrictLoop(g, Tail(q) \o fresh, marked \cup Range(fresh),
                       Append(out, Head(q)))

StrictBFS(g, s) == StrictLoop(g, <<s>>, {s}, <<>>)

\* The call that has just completed.
Done(name) == pc = "done" /\ op.name = name
Returned == result.kind = "return"

\* ------------------------------------------------------------------ claims

\* C1: for a start node s of G, dfs_traversal(G, s) and bfs_traversal(G, s)
\* each return every node reachable from s exactly once and no other node;
\* so their length is the size of s's connected component, and they begin
\* with s.
C1_TraversalCoversComponentOnce ==
    (/\ Done("dfs_traversal") \/ Done("bfs_traversal")
     /\ op.args[1] \in NodesOf(G))
    => /\ Returned
       /\ Range(result.val) = Reach(G, op.args[1])
       /\ NoRepeats(result.val)
       /\ Len(result.val) = Cardinality(Reach(G, op.args[1]))
       /\ result.val[1] = op.args[1]

\* A traversal has returned a component of three nodes or more that is not
\* the whole graph.
C1_Witness ==
    /\ Done("dfs_traversal")
    /\ op.args[1] \in NodesOf(G)
    /\ Returned
    /\ Len(result.val) >= 3
    /\ Reach(G, op.args[1]) # NodesOf(G)

\* C2: for nodes a, b of G with b reachable from a, find_shortest_path(G, a, b)
\* returns a sequence that starts with a, ends with b, joins consecutive
\* nodes by edges of G and has as many edges as the shortest a-to-b walk;
\* find_shortest_path(G, a, a) = [a].
C2_ShortestPathIsShortest ==
    (/\ Done("find_shortest_path")
     /\ op.args[1] \in NodesOf(G)
     /\ op.args[2] \in NodesOf(G)
     /\ op.args[2] \in Reach(G, op.args[1]))
    => /\ Returned
       /\ LET path == result.val
          IN /\ Len(path) >= 1
             /\ path[1] = op.args[1]
             /\ path[Len(path)] = op.args[2]
             /\ \A i \in 1..(Len(path) - 1) : path[i + 1] \in Range(G[path[i]])
             /\ Len(path) - 1 = Dist(G, op.args[1], op.args[2])
             /\ op.args[1] = op.args[2] => path = <<op.args[1]>>

\* A path of two edges was found from a source with two neighbours besides
\* itself: the forward fringe outgrew the backward one, so both directions of
\* the search have run.
C2_Witness ==
    /\ Done("find_shortest_path")
    /\ Returned
    /\ Len(result.val) = 3
    /\ Cardinality(Range(G[op.args[1]]) \ {op.args[1]}) >= 2

\* The pairs of the edge list that are incident to n.
IncidentPairs(es, n) == {i \in 1..Len(es) : n \in {es[i][1], es[i][2]}}

\* C3 as stated: get_degree(G, n) is the count of the pairs of the edge list
\* that are incident to n, each listed pair counted, repeated and reversed
\* pairs included (a self-loop counted by the store's convention, once for
\* each of its two ends).
C3_DegreeCountsListedPairs ==
    (Done("get_degree") /\ op.args[1] \in NodesOf(G))
    => /\ Returned
       /\ result.val = Cardinality({i \in 1..Len(edges) : edges[i][1] = op.args[1]})
                       + Cardinality({i \in 1..Len(edges) : edges[i][2] = op.args[1]})

\* C3, amended: get_degree(G, n) is the number of distinct unordered pairs of
\* the edge list that are incident to n (a pair listed again, in either
\* direction, counts once), a self-loop at n counting twice.
C3_DegreeCountsDistinctEdges ==
    (Done("get_degree") /\ op.args[1] \in NodesOf(G))
    => /\ Returned
       /\ result.val =
              Cardinality({{edges[i][1], edges[i][2]} :
                               i \in IncidentPairs(edges, op.args[1])})
              + (IF <<op.args[1], op.args[1]>> \in Range(edges) THEN 1 ELSE 0)

\* The degree was asked of a node that has a self-loop and an edge listed
\* twice.
C3_Witness ==
    /\ Done("get_degree")
    /\ Returned
    /\ <<op.args[1], op.args[1]>> \in Range(edges)
    /\ \E i, j \in IncidentPairs(edges, op.args[1]) :
           /\ i < j
           /\ edges[i][1] # edges[i][2]
           /\ {edges[i][1], edges[i][2]} = {edges[j][1], edges[j][2]}

\* C4: when a node they are given is not in the graph, get_degree and
\* find_shortest_path raise a ValueError whose message names a missing node;
\* they return nothing.
C4_AbsentNodeRaises ==
    /\ (Done("get_degree") /\ op.args[1] \notin NodesOf(G))
       => /\ result.kind = "ValueError"
          /\ op.args[1] \in result.names
    /\ (Done("find_shortest_path") /\ Range(op.args) \ NodesOf(G) # {})
       => /\ result.kind = "ValueError"
          /\ result.names \cap (Range(op.args) \ NodesOf(G)) # {}

\* find_shortest_path was called with source = target, a node that is not in
\* the (non-empty) graph.
C4_Witness ==
    /\ Done("find_shortest_path")
    /\ op.args[1] = op.args[2]
    /\ op.args[1] \notin NodesOf(G)
    /\ NodesOf(G) # {}
    /\ result.kind = "ValueError"

\* C5: for nodes a, b of G with b not reachable from a, find_shortest_path
\* returns the empty sequence and raises nothing; and it returns the empty
\* sequence in that case only.
C5_NoPathReturnsEmpty ==
    Done("find_shortest_path")
    => ((Returned /\ result.val = <<>>)
        <=> /\ op.args[1] \in NodesOf(G)
            /\ op.args[2] \in NodesOf(G)
            /\ op.args[2] \notin Reach(G, op.args[1]))

\* The empty sequence was returned for two nodes of different components.
C5_Witness ==
    /\ Done("find_shortest_path")
    /\ Returned
    /\ result.val = <<>>
    /\ Range(op.args) \subseteq NodesOf(G)

\* C6: no step of get_degree, dfs_traversal, bfs_traversal or
\* find_shortest_path changes the node set or the edge set of the graph,
\* whether the call returns or raises, and however many calls are made.
C6_QueriesLeaveGraphUnchanged ==
    [][NodesOf(G)' = NodesOf(G) /\ EdgesOf(G)' = EdgesOf(G)]_vars

\* A traversal from a start that is not in the graph has failed.
C6_Witness ==
    /\ Done("bfs_traversal")
    /\ result.kind = "NetworkXError"
    /\ NodesOf(G) # {}

\* es with the pair e put in after its first k pairs.
InsertAt(es, k, e) == SubSeq(es, 1, k) \o <<e>> \o SubSeq(es, k + 1, Len(es))

SameGraphSets(g, h) == NodesOf(g) = NodesOf(h) /\ EdgesOf(g) = EdgesOf(h)

\* C7: the node set of create_graph(E) is the set of endpoints of E and its
\* edge set the set of unordered pairs of E; every edge has both endpoints
\* in the node set; and putting a pair that E holds, or its reversal, into E
\* once more leaves both sets as they are.  (Stated of the graph as the
\* caller holds it between two calls.)
C7_GraphIsSetOfUnorderedPairs ==
    pc = "idle" =>
    /\ NodesOf(G) = Range(Endpoints(edges))
    /\ EdgesOf(G) = {{edges[i][1], edges[i][2]} : i \in 1..Len(edges)}
    /\ \A e \in EdgesOf(G) : e \subseteq NodesOf(G)
    /\ \A i \in 1..Len(edges), k \in 0..Len(edges) :
           /\ SameGraphSets(create_graph(InsertAt(edges, k, edges[i])), G)
           /\ SameGraphSets(
                  create_graph(InsertAt(edges, k, <<edges[i][2], edges[i][1]>>)), G)

\* The edge list holds a pair and, later, its reversal, and a third node.
C7_Witness ==
    /\ \E i, j \in 1..Len(edges) :
           /\ i < j
           /\ edges[i][1] # edges[i][2]
           /\ edges[j] = <<edges[i][2], edges[i][1]>>
    /\ Cardinality(NodesOf(G)) >= 3

\* C8: for a start node s of G, bfs_traversal(G, s) returns the sequence a
\* strict visited-on-enqueue breadth-first search returns with the same
\* neighbour order.
C8_BfsEqualsStrictBfs ==
    (Done("bfs_traversal") /\ op.args[1] \in NodesOf(G))
    => /\ Returned
       /\ result.val = StrictBFS(G, op.args[1])

\* bfs_traversal holds a node twice in its queue.
C8_Witness ==
    /\ pc = "bfs"
    /\ ~NoRepeats(queue)

\* A traversal is running.
Running == pc \in {"dfs", "bfs"}

\* The neighbours the loops of the running dfs() calls have still to look at.
RECURSIVE PendingNeighbors(_)
PendingNeighbors(frames) ==
    IF frames = <<>> THEN 0
    ELSE (Len(G[Head(frames).node]) + 1 - Head(frames).i)
         + PendingNeighbors(Tail(frames))

\* What is left for the running traversal to do: the nodes it has not
\* visited, then the queue entries, stack frames and pending neighbours.
Unvisited == Cardinality(NodesOf(G) \ visited)
Backlog == Len(queue) + Len(stack) + PendingNeighbors(stack)

\* C9: a traversal from a node of the graph terminates.  At every point of
\* the run no node has been appended twice (each dfs() call appends its
\* node, so there is at most one call per node); while the traversal runs it
\* can take a step; and every step that leaves it running takes a node off
\* the unvisited ones, or else shrinks the backlog of queue entries, frames
\* and pending neighbours: a measure that cannot decrease for ever.  So the
\* traversal, once running, comes to its end.
C9_TraversalsTerminate ==
    /\ [](/\ NoRepeats(traversal_order)
          /\ Running => ENABLED Next)
    /\ [][(Running /\ Running')
          => \/ Unvisited' < Unvisited
             \/ Unvisited' = Unvisited /\ Backlog' < Backlog]_vars
    /\ Running ~> (pc = "done")

\* A depth-first traversal has returned from a cycle of three nodes: each of
\* them is a neighbour of the other two, and was visited once.
C9_Witness ==
    /\ Done("dfs_traversal")
    /\ Returned
    /\ Len(result.val) = 3
    /\ \A n \in Range(result.val) : Range(result.val) \ {n} \subseteq Range(G[n])

\* C10: in the sequence bfs_traversal(G, s) returns, the distance from s never
\* decreases from one position to a later one.
C10_BfsOrderedByDistance ==
    (Done("bfs_traversal") /\ op.args[1] \in NodesOf(G))
    => /\ Returned
       /\ \A i, j \in 1..Len(result.val) :
              i < j => Dist(G, op.args[1], result.val[i])
                           <= Dist(G, op.args[1], result.val[j])

\* bfs_traversal has returned nodes at distance 0, 1, 1 and 2.
C10_Witness ==
    /\ Done("bfs_traversal")
    /\ Returned
    /\ Len(result.val) = 4
    /\ Dist(G, op.args[1], result.val[3]) = 1
    /\ Dist(G, op.args[1], result.val[4]) = 2

====
